---- MODULE Spec2Model ----
(***************************************************************************)
(* Model of Siv3D/AlignedMemory.hpp: AlignedMalloc / AlignedFree,          *)
(* HasAlignment, AlignedNew / AlignedDelete, AlignedDeleter, AlignedUnique *)
(* / AlignedShared and the dispatching MakeUnique / MakeShared.            *)
(*                                                                         *)
(* The heap is a small address range.  The platform primitives            *)
(* (_aligned_malloc/_aligned_free, posix_memalign/free, operator           *)
(* new/delete) are the environment: a successful allocation returns a      *)
(* free address that satisfies the requested alignment, a failed one       *)
(* returns no block.  Both preprocessor branches of the header are         *)
(* modelled; the branch is a build-time choice fixed in Init.              *)
(***************************************************************************)
EXTENDS Integers, FiniteSets, Sequences, TLC

\* ------------------------------------------------------------- bounds
\* One past the last heap byte.
HeapEnd == 192
\* Largest number of allocating calls (raw or factory) in one run.
MaxCalls == 2
\* Largest use_count of a shared handle.
MaxOwners == 2

\* ------------------------------------------------ program constants
\* nullptr
NULL == 0
\* sizeof(void*): posix_memalign rejects (EINVAL) an alignment that is not
\* a multiple of it.
PointerSize == 8
\* The allocator's guaranteed minimum alignment of this build.
SIV3D_ALLOCATOR_MIN_ALIGNMENT == 16

\* The two preprocessor branches (SIV3D_TARGET_WINDOWS or not).
Platforms == {"windows", "posix"}

\* The template argument Type: sizeof(Type) and alignof(Type); alignments
\* below, equal to and above the allocator's minimum.
Types ==
    { [name |-> "Int32",  size |-> 4,  align |-> 4],
      [name |-> "Float4", size |-> 16, align |-> 16],
      [name |-> "Line64", size |-> 64, align |-> 64] }

\* The template argument Alignment (powers of two).
Alignments == {4, 16, 64}

\* The argument n of AlignedMalloc.
Counts == {1, 2}

\* Block start addresses the platform allocators hand out, and the values an
\* indeterminate pointer can hold.
HeapAddrs == {16, 40, 64}

Pointers == HeapAddrs \cup {NULL}

VARIABLES
    platform,       \* preprocessor branch of this build
    allocated,      \* live heap blocks: [addr, size, path]
    live,           \* constructed objects: [addr, type]
    raw,            \* raw pointers the caller holds: [ptr, type, constructed]
    handles,        \* smart-pointer handles the caller holds
    calls,          \* allocating calls (raw or factory) made so far
    allocCount,     \* successful calls of the platform aligned-allocation primitive
    freeCount,      \* calls of the platform aligned-release primitive on a non-null pointer
    corrupt,        \* an undefined heap operation has been performed
    last            \* what the last call did

vars == <<platform, allocated, live, raw, handles,
          calls, allocCount, freeCount, corrupt, last>>

\* ------------------------------------------------------- memory state
\* The part of the state the library functions read and write, as a record;
\* events and faults are those of the call in progress.
Mem ==
    [ allocated  |-> allocated,
      live       |-> live,
      allocCount |-> allocCount,
      freeCount  |-> freeCount,
      events     |-> << >>,
      faults     |-> {} ]

Overlaps(a, size, b) == a < b.addr + b.size /\ b.addr < a + size

BlocksAt(blocks, p) == { b \in blocks : b.addr = p }

\* Addresses a successful allocation of `size` bytes aligned to `alignment`
\* can return: inside the heap, aligned as requested, overlapping no block.
FreeAddrs(blocks, size, alignment) ==
    { a \in HeapAddrs :
        /\ a % alignment = 0
        /\ a + size <= HeapEnd
        /\ \A b \in blocks : ~Overlaps(a, size, b) }

\* Results of the platform aligned-allocation primitive: NULL (failure) or
\* the address of the new block.  posix_memalign fails with EINVAL when the
\* alignment is not a multiple of sizeof(void*).
PlatformAlignedAlloc(blocks, size, alignment) ==
    {NULL} \cup
    ( IF platform = "posix" /\ alignment % PointerSize # 0
        THEN {}
        ELSE FreeAddrs(blocks, size, alignment) )

\* Results of operator new for `size` bytes: NULL stands for std::bad_alloc;
\* a block is aligned to the allocator's guaranteed minimum.
OperatorNew(blocks, size) ==
    {NULL} \cup FreeAddrs(blocks, size, SIV3D_ALLOCATOR_MIN_ALIGNMENT)

\* A release primitive applied to the non-null p on behalf of `path`.
\* Releasing an address that is no block, or a block obtained through the
\* other path, is undefined.
Release(m, p, path) ==
    LET bs == BlocksAt(m.allocated, p)
    IN  [m EXCEPT
           !.allocated = @ \ bs,
           !.events    = Append(@, "free"),
           !.faults    = @ \cup
               ( IF bs = {} THEN {"invalid_free"}
                 ELSE IF \E b \in bs : b.path # path
                   THEN {"mismatched_free"}
                   ELSE {} )]

\* ::_aligned_free(p) / ::free(p): nothing happens for a null pointer.
PlatformAlignedFree(m, p) ==
    IF p = NULL
      THEN m
      ELSE [Release(m, p, "aligned") EXCEPT !.freeCount = @ + 1]

\* operator delete(p)
OperatorDelete(m, p) ==
    IF p = NULL THEN m ELSE Release(m, p, "default")

\* ::new (p) Type(args...): the constructor runs on the storage at p and
\* either completes or throws.  Storage that is no allocated block large
\* enough for Type is a wild write.
PlacementNew(m, p, Type, throws) ==
    LET onBlock == \E b \in m.allocated : b.addr = p /\ Type.size <= b.size
        m1 == [m EXCEPT
                 !.events = Append(@, IF throws THEN "ctor_throw" ELSE "ctor"),
                 !.faults = IF onBlock THEN @ ELSE @ \cup {"wild_ctor"}]
    IN  IF throws
          THEN m1
          ELSE [m1 EXCEPT !.live = @ \cup {[addr |-> p, type |-> Type.name]}]

\* p->~Type()
Destructor(m, p, Type) ==
    LET obj == [addr |-> p, type |-> Type.name]
    IN  [m EXCEPT
           !.live   = @ \ {obj},
           !.events = Append(@, "dtor"),
           !.faults = IF obj \in m.live THEN @ ELSE @ \cup {"wild_dtor"}]

\* ------------------------------------------------- the header's functions
\* AlignedMalloc<Type, Alignment>(n).  prim is the primitive's result
\* (NULL on failure), garbage the indeterminate value of the local `p` that
\* posix_memalign leaves unwritten when it fails.
AlignedMalloc(m, Type, Alignment, n, prim, garbage) ==
    LET m1 == [m EXCEPT
                 !.allocCount = IF prim # NULL THEN @ + 1 ELSE @,
                 !.allocated  = IF prim # NULL
                                  THEN @ \cup {[addr |-> prim,
                                                size |-> Type.size * n,
                                                path |-> "aligned"]}
                                  ELSE @,
                 !.events     = Append(@, "alloc")]
    IN  IF platform = "windows"
          THEN [mem |-> m1, ret |-> prim]
          ELSE [mem |-> m1, ret |-> IF prim # NULL THEN prim ELSE garbage]

\* AlignedFree(p)
AlignedFree(m, p) == PlatformAlignedFree(m, p)

HasAlignment_Mutant(Type) == Type.align >= SIV3D_ALLOCATOR_MIN_ALIGNMENT

\* HasAlignment<Type>::value
HasAlignment(Type) == Type.align > SIV3D_ALLOCATOR_MIN_ALIGNMENT

AlignedNew_Mutant(m, Type, prim, garbage, throws) ==
    LET a == AlignedMalloc(m, Type, Type.align, 1, prim, garbage)
    IN  IF a.ret = NULL
          THEN [mem |-> a.mem, ret |-> NULL, result |-> "bad_alloc"]
          ELSE IF throws
            THEN [mem |-> PlacementNew(a.mem, a.ret, Type, TRUE),
                  ret |-> NULL, result |-> "ctor_exception"]
            ELSE [mem |-> PlacementNew(a.mem, a.ret, Type, FALSE),
                  ret |-> a.ret, result |-> "ok"]

\* AlignedNew<Type>(args...): result is "ok" (ret is the object),
\* "bad_alloc" or "ctor_exception" (the exception leaves the function, no
\* pointer is returned).
AlignedNew(m, Type, prim, garbage, throws) ==
    LET a == AlignedMalloc(m, Type, Type.align, 1, prim, garbage)
    IN  IF a.ret = NULL
          THEN [mem |-> a.mem, ret |-> NULL, result |-> "bad_alloc"]
          ELSE IF throws
            THEN [mem |-> AlignedFree(PlacementNew(a.mem, a.ret, Type, TRUE),
                                      a.ret),
                  ret |-> NULL, result |-> "ctor_exception"]
            ELSE [mem |-> PlacementNew(a.mem, a.ret, Type, FALSE),
                  ret |-> a.ret, result |-> "ok"]

AlignedDelete_Mutant(m, p, Type) == AlignedFree(Destructor(m, p, Type), p)

\* AlignedDelete(p)
AlignedDelete(m, p, Type) ==
    IF p = NULL
      THEN m
      ELSE AlignedFree(Destructor(m, p, Type), p)

\* AlignedDeleter<Type>::operator()(p)
AlignedDeleter(m, p, Type) == AlignedDelete(m, p, Type)

\* std::default_delete<Type>: delete p (also the release of make_shared's
\* block).
DefaultDelete(m, p, Type) ==
    IF p = NULL
      THEN m
      ELSE OperatorDelete(Destructor(m, p, Type), p)

\* A handle around the object a factory produced, none when it threw.
Handle(kind, deleter, Type, r) ==
    IF r.result = "ok"
      THEN {[kind |-> kind, ptr |-> r.ret, deleter |-> deleter,
             type |-> Type, owners |-> 1]}
      ELSE {}

\* AlignedUnique<Type>(args...)
AlignedUnique(m, Type, prim, garbage, throws) ==
    LET r == AlignedNew(m, Type, prim, garbage, throws)
    IN  [mem |-> r.mem, ret |-> r.ret, result |-> r.result, path |-> "aligned",
         handle |-> Handle("unique", "AlignedDeleter", Type, r)]

\* AlignedShared<Type>(args...)
AlignedShared(m, Type, prim, garbage, throws) ==
    LET r == AlignedNew(m, Type, prim, garbage, throws)
    IN  [mem |-> r.mem, ret |-> r.ret, result |-> r.result, path |-> "aligned",
         handle |-> Handle("shared", "AlignedDeleter", Type, r)]

\* new Type(args...) as std::make_unique / std::make_shared perform it:
\* operator new, the constructor, operator delete if the constructor throws.
DefaultNew(m, Type, prim, throws) ==
    LET m0 == [m EXCEPT !.events = Append(@, "new")]
    IN  IF prim = NULL
          THEN [mem |-> m0, ret |-> NULL, result |-> "bad_alloc"]
          ELSE LET m1 == [m0 EXCEPT
                            !.allocated = @ \cup {[addr |-> prim,
                                                   size |-> Type.size,
                                                   path |-> "default"]}]
               IN  IF throws
                     THEN [mem |-> OperatorDelete(
                                     PlacementNew(m1, prim, Type, TRUE), prim),
                           ret |-> NULL, result |-> "ctor_exception"]
                     ELSE [mem |-> PlacementNew(m1, prim, Type, FALSE),
                           ret |-> prim, result |-> "ok"]

\* MakeUnique<Type>(args...): the overload enable_if selects.  primA and
\* primD are what the aligned primitive and operator new would return.
MakeUnique(m, Type, primA, primD, garbage, throws) ==
    IF ~HasAlignment(Type)
      THEN LET r == DefaultNew(m, Type, primD, throws)
           IN  [mem |-> r.mem, ret |-> r.ret, result |-> r.result,
                path |-> "default",
                handle |-> Handle("unique", "default_delete", Type, r)]
      ELSE AlignedUnique(m, Type, primA, garbage, throws)

\* MakeShared<Type>(args...): the overload enable_if selects.
MakeShared(m, Type, primA, primD, garbage, throws) ==
    IF ~HasAlignment(Type)
      THEN LET r == DefaultNew(m, Type, primD, throws)
           IN  [mem |-> r.mem, ret |-> r.ret, result |-> r.result,
                path |-> "default",
                handle |-> Handle("shared", "default_delete", Type, r)]
      ELSE LET r == AlignedNew(m, Type, primA, garbage, throws)
           IN  [mem |-> r.mem, ret |-> r.ret, result |-> r.result,
                path |-> "aligned",
                handle |-> Handle("shared", "AlignedDeleter", Type, r)]

\* The deleter a handle runs when its last owner lets go.
RunDeleter(m, h) ==
    IF h.deleter = "AlignedDeleter"
      THEN AlignedDeleter(m, h.ptr, h.type)
      ELSE DefaultDelete(m, h.ptr, h.type)

\* IsAligned(p, alignment)
IsAligned(p, alignment) == (p % alignment) = 0

\* ------------------------------------------------------------ actions
\* Values of AlignedMalloc's local `p` when the primitive did not write it:
\* any pointer.  The local exists in the non-Windows branch only and is
\* overwritten whenever posix_memalign succeeds.
Indeterminate(prim) ==
    IF platform = "posix" /\ prim = NULL THEN Pointers ELSE {NULL}

\* Results of either allocation primitive for one object of Type.
AnyAlloc(Type) ==
    PlatformAlignedAlloc(allocated, Type.size, Type.align)
        \cup OperatorNew(allocated, Type.size)

\* The results of the primitive that the path taken calls.
AllocOf(path, Type) ==
    IF path = "aligned"
      THEN PlatformAlignedAlloc(allocated, Type.size, Type.align)
      ELSE OperatorNew(allocated, Type.size)

NoType == [name |-> "none", size |-> 0, align |-> 1]

\* A null pointer in the caller's hands.
NullHolding == [ptr |-> NULL, type |-> NoType, constructed |-> FALSE]

NullObject(Type) == [ptr |-> NULL, type |-> Type, constructed |-> TRUE]

Last(op, Type, Alignment, arg, ret, result, primOk, path, m) ==
    [ op |-> op, typeAlign |-> Type.align,
      alignment |-> Alignment, arg |-> arg,
      ret |-> ret, result |-> result, primOk |-> primOk, path |-> path,
      events |-> m.events, faults |-> m.faults ]

\* Commit the memory state a call leaves behind.  A call that performed an
\* undefined heap operation (its faults) leaves the process in no defined
\* state: the run is followed up to and including that call, and no further.
Commit(m) ==
    /\ allocated'  = m.allocated
    /\ live'       = m.live
    /\ allocCount' = m.allocCount
    /\ freeCount'  = m.freeCount
    /\ corrupt' = (m.faults # {})

Init ==
    /\ platform \in Platforms
    /\ allocated = {}
    /\ live = {}
    /\ raw = {}
    /\ handles = {}
    /\ calls = 0
    /\ allocCount = 0
    /\ freeCount = 0
    /\ corrupt = FALSE
    /\ last = Last("init", NoType, 1, NULL, NULL, "ok", TRUE, "none", Mem)

\* p = AlignedMalloc<Type, Alignment>(n); the caller keeps a non-null result.
AlignedMallocCall ==
    /\ ~corrupt
    /\ calls < MaxCalls
    /\ calls' = calls + 1
    /\ \E Type \in Types, Alignment \in Alignments, n \in Counts :
         /\ Alignment >= Type.align
         /\ \E prim \in PlatformAlignedAlloc(allocated, Type.size * n, Alignment) :
            \E garbage \in Indeterminate(prim) :
              LET r == AlignedMalloc(Mem, Type, Alignment, n, prim, garbage)
              IN  /\ Commit(r.mem)
                  /\ raw' = IF r.ret # NULL
                              THEN raw \cup {[ptr |-> r.ret, type |-> NoType,
                                              constructed |-> FALSE]}
                              ELSE raw
                  /\ last' = Last("AlignedMalloc", Type, Alignment, n, r.ret,
                                  "ok", prim # NULL, "aligned", r.mem)
    /\ UNCHANGED <<platform, handles>>

\* AlignedFree(p) on nullptr or on a pointer obtained from AlignedMalloc.
AlignedFreeCall ==
    /\ ~corrupt
    /\ \E r \in {NullHolding} \cup { x \in raw : ~x.constructed } :
         LET m == AlignedFree(Mem, r.ptr)
         IN  /\ Commit(m)
             /\ raw' = raw \ {r}
             /\ last' = Last("AlignedFree", NoType, 1, r.ptr, NULL, "ok", TRUE,
                             "aligned", m)
    /\ UNCHANGED <<platform, handles, calls>>

\* p = AlignedNew<Type>(args...); the caller keeps the object.
AlignedNewCall ==
    /\ ~corrupt
    /\ calls < MaxCalls
    /\ calls' = calls + 1
    /\ \E Type \in Types, throws \in BOOLEAN :
         \E prim \in PlatformAlignedAlloc(allocated, Type.size, Type.align) :
          \E garbage \in Indeterminate(prim) :
           LET r == AlignedNew(Mem, Type, prim, garbage, throws)
           IN  /\ Commit(r.mem)
               /\ raw' = IF r.result = "ok"
                           THEN raw \cup {[ptr |-> r.ret, type |-> Type,
                                           constructed |-> TRUE]}
                           ELSE raw
               /\ last' = Last("AlignedNew", Type, Type.align, NULL, r.ret,
                               r.result, prim # NULL, "aligned", r.mem)
    /\ UNCHANGED <<platform, handles>>

\* AlignedDelete(p) on nullptr or on an object obtained from AlignedNew.
AlignedDeleteCall ==
    /\ ~corrupt
    /\ \E r \in { NullObject(T) : T \in Types } \cup { x \in raw : x.constructed } :
         LET m == AlignedDelete(Mem, r.ptr, r.type)
         IN  /\ Commit(m)
             /\ raw' = raw \ {r}
             /\ last' = Last("AlignedDelete", r.type, r.type.align, r.ptr, NULL,
                             "ok", TRUE, "aligned", m)
    /\ UNCHANGED <<platform, handles, calls>>

\* A factory call whose result record is r; the caller keeps the handle.
Factory(op, Type, prim, r) ==
    /\ Commit(r.mem)
    /\ handles' = handles \cup r.handle
    /\ last' = Last(op, Type, Type.align, NULL, r.ret, r.result,
                    prim # NULL, r.path, r.mem)
    /\ UNCHANGED <<platform, raw>>

AlignedUniqueCall ==
    /\ ~corrupt
    /\ calls < MaxCalls
    /\ calls' = calls + 1
    /\ \E Type \in Types, throws \in BOOLEAN :
         \E prim \in PlatformAlignedAlloc(allocated, Type.size, Type.align) :
          \E garbage \in Indeterminate(prim) :
           Factory("AlignedUnique", Type, prim,
                   AlignedUnique(Mem, Type, prim, garbage, throws))

AlignedSharedCall ==
    /\ ~corrupt
    /\ calls < MaxCalls
    /\ calls' = calls + 1
    /\ \E Type \in Types, throws \in BOOLEAN :
         \E prim \in PlatformAlignedAlloc(allocated, Type.size, Type.align) :
          \E garbage \in Indeterminate(prim) :
           Factory("AlignedShared", Type, prim,
                   AlignedShared(Mem, Type, prim, garbage, throws))

MakeUniqueCall ==
    /\ ~corrupt
    /\ calls < MaxCalls
    /\ calls' = calls + 1
    /\ \E Type \in Types, throws \in BOOLEAN :
         \E prim \in AnyAlloc(Type) :
           \E garbage \in Indeterminate(prim) :
             LET r == MakeUnique(Mem, Type, prim, prim, garbage, throws)
             IN  /\ prim \in AllocOf(r.path, Type)
                 /\ Factory("MakeUnique", Type, prim, r)

MakeSharedCall ==
    /\ ~corrupt
    /\ calls < MaxCalls
    /\ calls' = calls + 1
    /\ \E Type \in Types, throws \in BOOLEAN :
         \E prim \in AnyAlloc(Type) :
           \E garbage \in Indeterminate(prim) :
             LET r == MakeShared(Mem, Type, prim, prim, garbage, throws)
             IN  /\ prim \in AllocOf(r.path, Type)
                 /\ Factory("MakeShared", Type, prim, r)

\* A shared handle is copied: one more owner.
CopyShared ==
    /\ ~corrupt
    /\ \E h \in handles :
         /\ h.kind = "shared"
         /\ h.owners < MaxOwners
         /\ handles' = (handles \ {h}) \cup {[h EXCEPT !.owners = @ + 1]}
         /\ last' = Last("copy", h.type, h.type.align, h.ptr, NULL, "ok",
                         TRUE, "none", Mem)
    /\ UNCHANGED <<platform, allocated, live, raw, calls, allocCount,
                   freeCount, corrupt>>

\* An owner lets go of its handle (reset or destruction): the last owner
\* runs the deleter.
ReleaseHandle ==
    /\ ~corrupt
    /\ \E h \in handles :
         LET m == IF h.owners = 1 THEN RunDeleter(Mem, h) ELSE Mem
         IN  /\ Commit(m)
             /\ handles' = IF h.owners = 1
                             THEN handles \ {h}
                             ELSE (handles \ {h}) \cup
                                  {[h EXCEPT !.owners = @ - 1]}
             /\ last' = Last("release", h.type, h.type.align, h.ptr, NULL,
                             IF h.owners = 1 THEN "deleted" ELSE "ok", TRUE,
                             IF h.deleter = "AlignedDeleter"
                               THEN "aligned" ELSE "default", m)
    /\ UNCHANGED <<platform, raw, calls>>

Next ==
    \/ AlignedMallocCall
    \/ AlignedFreeCall
    \/ AlignedNewCall
    \/ AlignedDeleteCall
    \/ AlignedUniqueCall
    \/ AlignedSharedCall
    \/ MakeUniqueCall
    \/ MakeSharedCall
    \/ CopyShared
    \/ ReleaseHandle

Spec == Init /\ [][Next]_vars

\* The Windows build alone.
InitWindows == Init /\ platform = "windows"

SpecWindows == InitWindows /\ [][Next]_vars

\* ------------------------------------------------------------- claims
Has(events, e) == \E i \in DOMAIN events : events[i] = e

NumOf(events, e) == Cardinality({ i \in DOMAIN events : events[i] = e })

\* The calls that run AlignedNew.
RanAlignedNew(l) ==
    \/ l.op \in {"AlignedNew", "AlignedUnique", "AlignedShared"}
    \/ l.op \in {"MakeUnique", "MakeShared"} /\ l.path = "aligned"

\* C1: the pointer AlignedMalloc<Type, Alignment>() returns is a multiple of
\* Alignment, for every Alignment >= alignof(Type).
C1_ReturnedPointerIsAligned ==
    last.op = "AlignedMalloc" => IsAligned(last.ret, last.alignment)

\* C2: whenever the platform allocation primitive fails, AlignedMalloc
\* returns null (and does not throw), on every platform branch.
C2_NullOnAllocationFailure ==
    (last.op = "AlignedMalloc" /\ ~last.primOk)
        => (last.ret = NULL /\ last.result = "ok")

\* C3: when the allocation inside AlignedNew fails, AlignedNew ends with
\* bad_alloc, the constructor is not run and no pointer is returned.
C3_FailedAllocationIsBadAlloc ==
    (last.op = "AlignedNew" /\ ~last.primOk)
        => /\ last.result = "bad_alloc"
           /\ ~Has(last.events, "ctor")
           /\ ~Has(last.events, "ctor_throw")
           /\ last.ret = NULL

Quiescent == raw = {} /\ handles = {}

\* C5: once every object made by AlignedNew has been given to AlignedDelete,
\* the successful aligned allocations and the frees are equal in number, no
\* block was freed twice and none is left.
C5_NoLeak ==
    Quiescent
        => /\ allocCount = freeCount
           /\ allocated = {}
           /\ live = {}
           /\ "invalid_free" \notin last.faults

\* C6: AlignedFree(nullptr) and AlignedDelete(nullptr) change nothing: no
\* block is released, no destructor runs, nothing is raised.
C6_NullIsNoOp ==
    [][ (last'.op \in {"AlignedFree", "AlignedDelete"} /\ last'.arg = NULL)
        => ( /\ allocated' = allocated
             /\ live' = live
             /\ raw' = raw
             /\ handles' = handles
             /\ allocCount' = allocCount
             /\ freeCount' = freeCount
             /\ last'.events = << >>
             /\ last'.faults = {}
             /\ last'.result = "ok"
             /\ ~corrupt' ) ]_vars

C6_Witness ==
    /\ last.op = "AlignedDelete"
    /\ last.arg = NULL
    /\ allocated # {}
    /\ live # {}

\* C7: MakeUnique / MakeShared allocate through the default path when
\* alignof(Type) <= SIV3D_ALLOCATOR_MIN_ALIGNMENT and through the aligned
\* path when it is greater, and through exactly one of the two.
C7_DispatchByAlignment ==
    last.op \in {"MakeUnique", "MakeShared"}
        => IF last.typeAlign <= SIV3D_ALLOCATOR_MIN_ALIGNMENT
             THEN /\ last.path = "default"
                  /\ NumOf(last.events, "new") = 1
                  /\ ~Has(last.events, "alloc")
             ELSE /\ last.path = "aligned"
                  /\ NumOf(last.events, "alloc") = 1
                  /\ ~Has(last.events, "new")

C7_Witness ==
    /\ last.op = "MakeShared"
    /\ last.typeAlign > SIV3D_ALLOCATOR_MIN_ALIGNMENT
    /\ last.path = "aligned"
    /\ last.result = "ok"
    /\ \E h \in handles : h.type.align = SIV3D_ALLOCATOR_MIN_ALIGNMENT
                          /\ h.deleter = "default_delete"

\* C8: a block obtained through the aligned path is released through
\* AlignedFree only and a block obtained through the default path through
\* the default path only; so for every handle the factories return.
C8_PathsArePaired ==
    /\ "mismatched_free" \notin last.faults
    /\ \A h \in handles : \A b \in BlocksAt(allocated, h.ptr) :
         (h.deleter = "AlignedDeleter") <=> (b.path = "aligned")

\* C9: while a handle made by AlignedUnique / AlignedShared has an owner,
\* its block is allocated and its object is live; the release of the last
\* owner runs AlignedDelete once, and no earlier release runs it.
C9_HandleOwnsBlockUntilLastRelease ==
    /\ \A h \in handles :
         h.deleter = "AlignedDeleter"
           => /\ \E b \in BlocksAt(allocated, h.ptr) : b.path = "aligned"
              /\ [addr |-> h.ptr, type |-> h.type.name] \in live
    /\ (last.op = "release" /\ last.path = "aligned")
         => /\ last.faults = {}
            /\ last.events = IF last.result = "deleted"
                               THEN <<"dtor", "free">> ELSE << >>

\* C10: AlignedDelete on a non-null pointer runs the destructor and then
\* releases the block; no live object is on storage that is not an allocated
\* block.
C10_DestructThenFree ==
    /\ \A o \in live : BlocksAt(allocated, o.addr) # {}
    /\ (last.op = "AlignedDelete" /\ last.arg # NULL)
         => last.events = <<"dtor", "free">>
    /\ "wild_ctor" \notin last.faults
====
